---- MODULE Spec2Model ----
(***************************************************************************)
(* Session lifecycle of the game player screen (src/app/game-player.tsx,   *)
(* first GamePlayerScreen component) together with the module state of     *)
(* src/services/GameService.ts.                                            *)
(*                                                                         *)
(* One step of the model is one run-to-completion turn of the JavaScript   *)
(* event loop (an effect pass, an event handler, or the continuation of an *)
(* async function after an awaited I/O call) followed by the React commit. *)
(* Async functions keep the values of the render they were created in      *)
(* (closures); setState calls made after unmount are dropped.              *)
(***************************************************************************)
EXTENDS Integers, Sequences, FiniteSets, TLC

(* ----------------------------- bounds ---------------------------------- *)
MaxFlows == 2    \* async session flows (startGameSession / param poll) per screen
MaxEvents == 2   \* events delivered to the screen: web-view messages, user input,
                 \* changes of the effect dependencies
MaxCalls == 2    \* GameService calls made directly (ServiceSpec)
MaxGames == 3    \* games in a list returned by the backend (CatalogSpec)

(* ------------------------- program constants --------------------------- *)
\* A loop bound one larger than the program's.
maxAttemptsOneMore == 10 + 1

maxAttempts == 10
timeoutMs == 60000
pollDelayMs == 3000

(* ------------------------------ texts ---------------------------------- *)
\* A message is a sequence of text fragments; the empty message is <<>>.
NetworkRequestFailed == "Network request failed"
MsgNetwork == <<NetworkRequestFailed>>
MsgApiRejected == <<"API error: ", "Bad request">>
MsgNoSignal == <<"Failed to generate SignalRequest">>
MsgSdkNotInitialized == <<"GameLift Streams SDK not initialized. Call initializeGameLiftStreams first.">>
MsgStatusFailed == <<"Request failed with status code 500">>
MsgSignalRejected == <<"Invalid signal response">>
MsgNone == <<>>

includes(msg, needle) == \E i \in 1..Len(msg) : msg[i] = needle

OrUnknown(msg, dflt) == IF msg = <<>> THEN <<dflt>> ELSE msg

ErrNetwork == <<"Network error: Unable to connect to the API. Please check your internet connection.">>
ErrApi(msg) == <<"API Error: ">> \o OrUnknown(msg, "Unknown API error")
ErrSdkInit(msg) == <<"Failed to initialize GameLift Streams SDK: ">> \o OrUnknown(msg, "Unknown error")
ErrTimeout == <<"Timeout waiting for session to be ready">>
ErrMaxAttempts == <<"Maximum polling attempts (10) reached. Session may still be initializing.">>
ErrStatusCheck(msg) == <<"Failed to check session status: ">> \o OrUnknown(msg, "Unknown error")
ErrSignal(msg) == <<"Failed to process signal response: ">> \o OrUnknown(msg, "Unknown error")
ErrSdkLoadNoUri == <<"Failed to load GameLift Streams SDK: localUri is undefined">>
ErrSdkLoad(msg) == <<"Failed to load GameLift Streams SDK: ">> \o OrUnknown(msg, "Unknown error")
ErrStream == <<"WebRTC connection error: ", "channel">>
ErrWebView == <<"WebView error: ", "Unknown error">>

(* ------------------------------ state ---------------------------------- *)
VARIABLES
  mounted,               \* the screen is mounted (false after unmount / navigation away)
  effectsRun,            \* the mount effects have run
  hasDocument,           \* the platform provides document.createElement
  isAuthenticated,       \* useAuth().isAuthenticated
  params,                \* navigation params: sessionArn, sessionStatus, initialSignalResponse
  sessionState,          \* useState: status, sessionArn, region, error, signalResponse
  isPolling,             \* useState
  sessionPollingStarted, \* useState
  sessionCreated,        \* useState
  streamReady,           \* useState
  connectionState,       \* useState
  sdkLoaded,             \* useState
  sdkTask,               \* loadSDKScript: "idle", "loading", "done"
  reloads,               \* reloadSDK calls in flight
  gameLifStreamsInstance,\* GameService module variable: 0 = null, n = n-th instance
  closedInstances,       \* SDK instances on which close() was called
  flows,                 \* async flows: startGameSession and waitForSessionReady
  closes,                \* terminateStreamSession calls in flight
  confirm,               \* pending exit confirmation: <<>> or <<arn>>
  inbox,                 \* messages posted by the web view, not yet handled
  events,                \* events delivered so far
  createRequests,        \* backend: POST / requests received
  liveSessions,          \* backend: sessions created and not terminated
  terminateLog,          \* backend: arns of the terminate requests received, in order
  discarded,             \* arns of attempts discarded by Retry
  terminateRejected,     \* a terminateStreamSession call has thrown to handleCloseSession
  navigatedBack,         \* router.back() calls made by the termination routine
  calls,                 \* GameService calls made directly by a caller, in order (ServiceSpec)
  catalog                \* the games screen and its getGames call (CatalogSpec)

envVars == <<hasDocument, params, calls, catalog>>
authVars == <<isAuthenticated>>
pollFlags == <<isPolling, sessionPollingStarted>>
viewFlags == <<streamReady, connectionState>>
sdkVars == <<gameLifStreamsInstance, closedInstances>>
loadVars == <<sdkTask, reloads>>
backendVars == <<createRequests, liveSessions, terminateLog>>

vars == <<mounted, effectsRun, hasDocument, isAuthenticated, params, sessionState,
          isPolling, sessionPollingStarted, sessionCreated, streamReady, connectionState,
          sdkLoaded, sdkTask, reloads, gameLifStreamsInstance, closedInstances, flows, closes,
          confirm, inbox, events, createRequests, liveSessions, terminateLog,
          discarded, terminateRejected, navigatedBack, calls, catalog>>

\* games.tsx: useState of the games screen before fetchGames has run.
\*   phase: "idle", "fetching" (awaiting getGames), "done"
\*   outcome: "ok" or why getGames threw
\*   backend: the list the backend returned; fetched: what getGames returned
\*   requests: GET /games requests sent by the current fetchGames call
\*   games, loading, error: useState (error "" is null); alert: the fallback
\*   alert was shown
InitialCatalog ==
  [phase |-> "idle", outcome |-> "", backend |-> <<>>, fetched |-> <<>>, requests |-> 0,
   games |-> <<>>, loading |-> TRUE, error |-> "", alert |-> FALSE]

InitialSessionState ==
  [status |-> "INITIALIZING", sessionArn |-> "", region |-> "", error |-> <<>>,
   signalResponse |-> ""]

CreatingSessionState ==
  [status |-> "CREATING_SESSION", sessionArn |-> "", region |-> "", error |-> <<>>,
   signalResponse |-> ""]

\* A params effect that forgets the arn of the session passed in.
ParamsSessionStateWithoutArn ==
  [status |-> IF params.sessionStatus = "ACTIVE" THEN "ACTIVE" ELSE "WAITING_FOR_SESSION",
   sessionArn |-> "", region |-> "", error |-> <<>>,
   signalResponse |-> params.initialSignalResponse]

ParamsSessionState ==
  [status |-> IF params.sessionStatus = "ACTIVE" THEN "ACTIVE" ELSE "WAITING_FOR_SESSION",
   sessionArn |-> params.sessionArn, region |-> "", error |-> <<>>,
   signalResponse |-> params.initialSignalResponse]

ParamSets ==
  { [sessionArn |-> "", sessionStatus |-> "", initialSignalResponse |-> ""],
    [sessionArn |-> "p1", sessionStatus |-> "PENDING", initialSignalResponse |-> ""],
    [sessionArn |-> "p1", sessionStatus |-> "ACTIVE", initialSignalResponse |-> "R"] }

Init ==
  /\ mounted = TRUE
  /\ effectsRun = FALSE
  /\ hasDocument \in BOOLEAN
  /\ isAuthenticated \in BOOLEAN
  /\ params \in ParamSets
  /\ sessionState = InitialSessionState
  /\ isPolling = FALSE
  /\ sessionPollingStarted = FALSE
  /\ sessionCreated = FALSE
  /\ streamReady = FALSE
  /\ connectionState = ""
  /\ sdkLoaded = FALSE
  /\ sdkTask = "idle"
  /\ reloads = 0
  /\ gameLifStreamsInstance = 0
  /\ closedInstances = {}
  /\ flows = <<>>
  /\ closes = <<>>
  /\ confirm = <<>>
  /\ inbox = <<>>
  /\ events = 0
  /\ createRequests = 0
  /\ liveSessions = {}
  /\ terminateLog = <<>>
  /\ discarded = {}
  /\ terminateRejected = FALSE
  /\ navigatedBack = 0
  /\ calls = <<>>
  /\ catalog = InitialCatalog

(* --------------------------- React plumbing ---------------------------- *)
\* setSessionState: dropped once the component is unmounted.
SetState(ns) == IF mounted THEN ns ELSE sessionState

SetFlag(old, new) == IF mounted THEN new ELSE old

WithError(s, text) == [s EXCEPT !.status = "ERROR", !.error = text]

\* The web view is rendered only while status is ACTIVE and the SDK script is
\* loaded (line 929); webViewRef.current is set exactly then.
WebViewShown == mounted /\ sessionState.status = "ACTIVE" /\ sdkLoaded

\* handleCloseSession(true) in a render with session state s (lines 642-655):
\* the terminateStreamSession calls it starts. nav: router.back() follows.
CloseCalls(s, nav) ==
  IF s.sessionArn # "" THEN <<[arn |-> s.sessionArn, nav |-> nav]>> ELSE <<>>

\* A cleanup that ends the session whatever the status of the previous render.
EffectCleanupAnyStatus(old, new) ==
  IF mounted /\ (old.status # new.status \/ old.sessionArn # new.sessionArn)
     /\ old.sessionArn # ""
  THEN CloseCalls(old, FALSE)
  ELSE <<>>

\* Cleanup of the back-handler effect (lines 301-307), which runs with the values
\* of the previous render when status or sessionArn changed.
EffectCleanup(old, new) ==
  IF mounted /\ (old.status # new.status \/ old.sessionArn # new.sessionArn)
     /\ old.sessionArn # "" /\ old.status = "ACTIVE"
  THEN CloseCalls(old, FALSE)
  ELSE <<>>

\* Messages of a web view that is no longer rendered are never delivered.
KeepInbox(q) ==
  IF mounted /\ sessionState'.status = "ACTIVE" /\ sdkLoaded' THEN q ELSE <<>>

\* Commit of a turn that changes the session state to ns and starts the
\* terminate calls more.
Commit(ns, more) ==
  /\ sessionState' = SetState(ns)
  /\ closes' = closes \o more \o EffectCleanup(sessionState, SetState(ns))

\* The unmount of the screen: the cleanup of the back-handler effect runs with
\* the values of the last render, and the component state is discarded.
Unmount(pending) ==
  /\ mounted' = FALSE
  /\ closes' = pending \o (IF mounted /\ sessionState.sessionArn # ""
                              /\ sessionState.status = "ACTIVE"
                           THEN CloseCalls(sessionState, FALSE) ELSE <<>>)
  /\ sessionState' = InitialSessionState
  /\ isPolling' = FALSE
  /\ sessionPollingStarted' = FALSE
  /\ sessionCreated' = FALSE
  /\ streamReady' = FALSE
  /\ connectionState' = ""
  /\ sdkLoaded' = FALSE
  /\ inbox' = <<>>

(* ---------------------- GameService module state ----------------------- *)
\* initializeGameLiftStreams: close the current instance, create a new one.
InitializeGameLiftStreams(ok) ==
  /\ gameLifStreamsInstance' = IF ok THEN gameLifStreamsInstance + 1 ELSE gameLifStreamsInstance
  /\ closedInstances' = IF ok /\ gameLifStreamsInstance # 0
                        THEN closedInstances \cup {gameLifStreamsInstance}
                        ELSE closedInstances

\* initializeSDK (lines 385-410): document.createElement throws where there is
\* no document; the error text it sets.
ErrNoDocument == ErrSdkInit(<<"document is not defined">>)

ArnOf(n) == <<"a1", "a2", "a3", "a4">>[n]

\* createStreamSession: the message of the error it throws for each cause.
CreateFailureMessage(cause) ==
  CASE cause = "network" -> MsgNetwork      \* no response: the transport error is rethrown
    [] cause = "api" -> MsgApiRejected      \* response with error body: "API error: ..."
    [] cause = "nosignal" -> MsgNoSignal    \* generateSignalRequest returned nothing
    [] OTHER -> MsgNone                     \* an error without message

CreateCauses == {"network", "api", "nosignal", "nomsg"}

\* A POST / reaches the network for these outcomes.
CreateSendsRequest(outcome) == outcome \in {"ok", "network", "api"}

PollResponses ==
  { [ok |-> TRUE, status |-> st, signalResponse |-> sg, region |-> "us-west-2", msg |-> <<>>] :
      st \in {"ACTIVE", "PENDING"}, sg \in {"", "R"} }
  \cup { [ok |-> FALSE, status |-> "", signalResponse |-> "", region |-> "", msg |-> MsgStatusFailed] }

\* A getSessionStatus call answers at once, or only after the whole timeout.
Latencies == {0, timeoutMs}

Min(a, b) == IF a < b THEN a ELSE b

(* ------------------------------ flows ---------------------------------- *)
\* A flow is one call of startGameSession (kind "start") or one call of
\* waitForSessionReady made by the params effect (kind "param").
\*   pc: "creating"   awaiting createStreamSession
\*       "poll_req"   awaiting getSessionStatus
\*       "poll_delay" awaiting the 3 s timer
\*       "consume"    awaiting processSignalResponse
\*       "done"
\*   closurePolling: isPolling in the render whose functions the flow runs
\*   outcome: how createStreamSession ended; lastStatus, lastSignal: the last
\*   getSessionStatus response; consumed: how processSignalResponse ended
\*   payload: the argument processSignalResponse was called with; sdk: the SDK
\*   instance it was called on; inputAttached: attachInput() was called on it
NewFlow(kind) ==
  [kind |-> kind, pc |-> "done", arn |-> "", i |-> 0, elapsed |-> 0, reqs |-> 0,
   closurePolling |-> isPolling, looped |-> FALSE, outcome |-> "",
   lastStatus |-> "", lastSignal |-> "", consumed |-> "none", sdk |-> 0,
   payload |-> "", inputAttached |-> FALSE]

Polling(f) == f.pc \in {"poll_req", "poll_delay", "consume"}

Finish(f) == [f EXCEPT !.pc = "done", !.i = 0, !.elapsed = 0]

\* A poll loop that forgets the arn it was called with.
EnterPollWithoutArn(f, arn) ==
  IF f.closurePolling
  THEN [f EXCEPT !.pc = "done"]
  ELSE [f EXCEPT !.pc = "poll_req", !.i = 0, !.elapsed = 0, !.reqs = 1, !.looped = TRUE]

\* waitForSessionReady up to its first await (lines 471-505): the isPolling guard
\* of the calling render, then the first iteration (no time has elapsed).
EnterPoll(f, arn) ==
  IF f.closurePolling
  THEN [f EXCEPT !.pc = "done", !.arn = arn]
  ELSE [f EXCEPT !.pc = "poll_req", !.arn = arn, !.i = 0, !.elapsed = 0, !.reqs = 1,
                 !.looped = TRUE]

\* A loop that takes every answered status request for an active session.
isActiveAnyResponse(resp) == resp.ok

\* A loop that looks at the status only.
isActiveOnStatusOnly(resp) == resp.status = "ACTIVE"

\* const isActive = sessionData.status === 'ACTIVE' || !!sessionData.signalResponse
isActive(resp) == resp.status = "ACTIVE" \/ resp.signalResponse # ""

\* for (let i = 0; i < maxAttempts; i++)
LoopContinues(i) == i < maxAttempts

\* if (i === maxAttempts - 1)
LastAttempt(i) == i = maxAttempts - 1

\* Code after the loop: if (attempts >= maxAttempts) set the max-attempts error.
AfterLoop(s, attempts) ==
  IF attempts >= maxAttempts THEN WithError(s, ErrMaxAttempts) ELSE s

(* ----------------------------- effects --------------------------------- *)
\* Params effect, lines 346-360: start polling for a session passed in params.
ShouldStartPolling(auth) ==
  /\ auth
  /\ params.sessionArn # ""
  /\ params.sessionStatus # "ACTIVE"
  /\ ~sessionPollingStarted
  /\ ~isPolling

\* An SDK-init effect that ignores a session passed in the params.
ShouldStartSessionIgnoringParams(auth) ==
  /\ auth
  /\ sessionState.sessionArn = ""
  /\ ~sessionCreated

\* An SDK-init effect that starts a session on every pass for an authenticated user.
ShouldStartSessionOnEveryPass(auth) ==
  /\ params.sessionArn = ""
  /\ auth

\* An SDK-init effect without the sessionCreated flag.
ShouldStartSessionUnflagged(auth) ==
  /\ params.sessionArn = ""
  /\ auth
  /\ sessionState.sessionArn = ""

\* SDK-init effect, lines 762-772: start a new session.
ShouldStartSession(auth) ==
  /\ params.sessionArn = ""
  /\ auth
  /\ sessionState.sessionArn = ""
  /\ ~sessionCreated

\* One pass of the two effects with dependencies [isAuthenticated, appId, sgId]:
\* the params effect (lines 331-379), then the SDK-init effect (lines 755-777).
RunEffects(auth) ==
  LET s1 == IF auth
            THEN (IF params.sessionArn # "" THEN ParamsSessionState ELSE InitialSessionState)
            ELSE sessionState
      poll == ShouldStartPolling(auth)
      s2 == IF hasDocument THEN s1 ELSE WithError(s1, ErrNoDocument)
      start == hasDocument /\ ShouldStartSession(auth)
      s3 == IF start THEN CreatingSessionState ELSE s2
      f1 == IF poll THEN <<EnterPoll(NewFlow("param"), params.sessionArn)>> ELSE <<>>
      f2 == IF start THEN <<[NewFlow("start") EXCEPT !.pc = "creating"]>> ELSE <<>>
  IN /\ Len(flows) + Len(f1) + Len(f2) <= MaxFlows
     /\ flows' = flows \o f1 \o f2
     /\ Commit(s3, <<>>)
     /\ isPolling' = IF poll THEN TRUE ELSE isPolling
     /\ sessionPollingStarted' = IF poll THEN TRUE ELSE sessionPollingStarted
     /\ sessionCreated' = IF hasDocument /\ (params.sessionArn # "" \/ start)
                          THEN TRUE ELSE sessionCreated
     /\ InitializeGameLiftStreams(hasDocument)

\* First effect pass after mount; also starts loadSDKScript (lines 779-855).
Mount ==
  /\ mounted /\ ~effectsRun
  /\ RunEffects(isAuthenticated)
  /\ effectsRun' = TRUE
  /\ sdkTask' = "loading"
  /\ UNCHANGED <<mounted, envVars, authVars, viewFlags, sdkLoaded, reloads, confirm,
                 events, backendVars, discarded, terminateRejected, navigatedBack>>
  /\ inbox' = KeepInbox(inbox)

\* A dependency of the effects changes (isAuthenticated becomes auth; auth equal
\* to the current value stands for a change of appId or sgId): the effects run again.
DepsChange(auth) ==
  /\ mounted /\ effectsRun
  /\ events < MaxEvents
  /\ events' = events + 1
  /\ isAuthenticated' = auth
  /\ RunEffects(auth)
  /\ UNCHANGED <<mounted, effectsRun, envVars, viewFlags, sdkLoaded, loadVars, confirm,
                 backendVars, discarded, terminateRejected, navigatedBack>>
  /\ inbox' = KeepInbox(inbox)

(* ------------------------- startGameSession ---------------------------- *)
\* A catch block that reports every failure as an API error.
CreateFailedAsApiError(s, msg) == WithError(s, ErrApi(msg))

\* A catch block that only logs the failure.
CreateFailedLogged(s, msg) == s

\* The catch block of startGameSession (lines 440-457).
CreateFailed(s, msg) ==
  IF includes(msg, NetworkRequestFailed)
  THEN WithError(s, ErrNetwork)
  ELSE WithError(s, ErrApi(msg))

FlowVarsUnchanged ==
  UNCHANGED <<mounted, effectsRun, envVars, authVars, sessionPollingStarted,
              sessionCreated, connectionState, sdkLoaded, loadVars, sdkVars, confirm, events,
              discarded, terminateRejected, navigatedBack>>

\* createStreamSession returns or throws inside startGameSession (lines 428-457).
CreateReturn(k, outcome) ==
  /\ flows[k].pc = "creating"
  /\ createRequests' = IF CreateSendsRequest(outcome) THEN createRequests + 1 ELSE createRequests
  /\ IF outcome = "ok"
     THEN LET arn == ArnOf(createRequests + 1)
              f == EnterPoll([flows[k] EXCEPT !.outcome = "ok"], arn)
          IN /\ liveSessions' = liveSessions \cup {arn}
             /\ flows' = [flows EXCEPT ![k] = f]
             /\ Commit([sessionState EXCEPT !.status = "WAITING_FOR_SESSION",
                                            !.sessionArn = arn], <<>>)
             /\ isPolling' = IF f.pc = "poll_req" THEN SetFlag(isPolling, TRUE) ELSE isPolling
     ELSE /\ liveSessions' = liveSessions
          /\ flows' = [flows EXCEPT ![k] = Finish([@ EXCEPT !.outcome = outcome])]
          /\ Commit(CreateFailed(sessionState, CreateFailureMessage(outcome)), <<>>)
          /\ isPolling' = isPolling
  /\ UNCHANGED <<streamReady, terminateLog>>
  /\ FlowVarsUnchanged
  /\ inbox' = KeepInbox(inbox)

(* ------------------------ waitForSessionReady -------------------------- *)
\* A catch block that only logs the failed status check.
StatusCheckFailedLogged(s, msg) == s

\* The catch block of the loop body (lines 575-583); the loop then breaks.
StatusCheckFailed(s, msg) == WithError(s, ErrStatusCheck(msg))

\* A loop that hands the signal of its own render to the SDK.
SignalOfRender(resp) == sessionState.signalResponse

\* await processSignalResponse(sessionData.signalResponse) (line 528)
SignalPassed(resp) == resp.signalResponse

\* getSessionStatus returns or throws inside the poll loop (lines 505-583),
\* followed by the finally block and the code after the loop when the loop ends.
PollResponse(k, resp, lat) ==
  LET f == [flows[k] EXCEPT !.lastStatus = resp.status, !.lastSignal = resp.signalResponse]
      e == Min(f.elapsed + lat, timeoutMs)
      sA == [sessionState EXCEPT !.status = "ACTIVE", !.sessionArn = f.arn,
                                 !.region = resp.region,
                                 !.signalResponse = resp.signalResponse]
  IN
  /\ flows[k].pc = "poll_req"
  /\ CASE ~resp.ok ->
            /\ flows' = [flows EXCEPT ![k] = Finish(f)]
            /\ Commit(AfterLoop(StatusCheckFailed(sessionState, resp.msg), f.i + 1), <<>>)
            /\ isPolling' = SetFlag(isPolling, FALSE)
            /\ streamReady' = streamReady
       [] resp.ok /\ isActive(resp) /\ resp.signalResponse # "" /\ gameLifStreamsInstance # 0 ->
            \* the loop returns after the call (line 557): i and startTime are not read again
            /\ flows' = [flows EXCEPT ![k] = [f EXCEPT !.pc = "consume", !.i = 0, !.elapsed = 0,
                                                !.sdk = gameLifStreamsInstance,
                                                !.payload = SignalPassed(resp)]]
            /\ Commit(sA, <<>>)
            /\ isPolling' = isPolling
            /\ streamReady' = streamReady
       [] resp.ok /\ isActive(resp) /\ resp.signalResponse # "" /\ gameLifStreamsInstance = 0 ->
            /\ flows' = [flows EXCEPT ![k] = Finish([f EXCEPT !.consumed = "fail",
                                                       !.payload = SignalPassed(resp)])]
            /\ Commit(WithError(sA, ErrSignal(MsgSdkNotInitialized)), <<>>)
            /\ isPolling' = SetFlag(isPolling, FALSE)
            /\ streamReady' = streamReady
       [] resp.ok /\ isActive(resp) /\ resp.signalResponse = "" ->
            /\ flows' = [flows EXCEPT ![k] = Finish(f)]
            /\ Commit(sA, <<>>)
            /\ isPolling' = SetFlag(isPolling, FALSE)
            /\ streamReady' = SetFlag(streamReady, TRUE)
       [] resp.ok /\ ~isActive(resp) /\ LastAttempt(f.i) ->
            /\ flows' = [flows EXCEPT ![k] = Finish(f)]
            /\ Commit(AfterLoop(WithError(sessionState, ErrMaxAttempts), f.i + 1), <<>>)
            /\ isPolling' = SetFlag(isPolling, FALSE)
            /\ streamReady' = streamReady
       [] OTHER ->
            /\ flows' = [flows EXCEPT ![k] = [f EXCEPT !.pc = "poll_delay", !.elapsed = e]]
            /\ Commit(sessionState, <<>>)
            /\ isPolling' = isPolling
            /\ streamReady' = streamReady
  /\ UNCHANGED backendVars
  /\ FlowVarsUnchanged
  /\ inbox' = KeepInbox(inbox)

\* The 3 s timer fires: next iteration of the loop (lines 488-505).
PollDelay(k) ==
  LET f == flows[k]
      i1 == f.i + 1
      e == Min(f.elapsed + pollDelayMs, timeoutMs)
  IN
  /\ f.pc = "poll_delay"
  /\ CASE ~LoopContinues(i1) ->
            /\ flows' = [flows EXCEPT ![k] = Finish(f)]
            /\ Commit(AfterLoop(sessionState, f.i + 1), <<>>)
            /\ isPolling' = SetFlag(isPolling, FALSE)
       [] LoopContinues(i1) /\ e >= timeoutMs ->
            /\ flows' = [flows EXCEPT ![k] = Finish(f)]
            /\ Commit(AfterLoop(WithError(sessionState, ErrTimeout), i1 + 1), <<>>)
            /\ isPolling' = SetFlag(isPolling, FALSE)
       [] OTHER ->
            /\ flows' = [flows EXCEPT ![k].pc = "poll_req", ![k].elapsed = e, ![k].i = i1,
                                      ![k].reqs = f.reqs + 1]
            /\ Commit(sessionState, <<>>)
            /\ isPolling' = isPolling
  /\ UNCHANGED <<streamReady, backendVars>>
  /\ FlowVarsUnchanged
  /\ inbox' = KeepInbox(inbox)

\* GameService.processSignalResponse (GameService.ts lines 111-116) hands the
\* payload to the SDK instance and returns; it makes no attachInput() call,
\* and neither does the poll loop after it (lines 528-541).
AttachesInput(ok) == FALSE

\* processSignalResponse resolves or rejects (lines 527-557).
ConsumeReturn(k, ok) ==
  LET f == flows[k] IN
  /\ f.pc = "consume"
  /\ flows' = [flows EXCEPT ![k] = Finish([f EXCEPT !.consumed = IF ok THEN "ok" ELSE "fail",
                                                    !.inputAttached = AttachesInput(ok)])]
  /\ Commit(IF ok THEN sessionState
            ELSE WithError(sessionState, ErrSignal(MsgSignalRejected)), <<>>)
  /\ streamReady' = IF ok THEN SetFlag(streamReady, TRUE) ELSE streamReady
  /\ isPolling' = SetFlag(isPolling, FALSE)
  /\ UNCHANGED backendVars
  /\ FlowVarsUnchanged
  /\ inbox' = KeepInbox(IF ok /\ WebViewShown THEN Append(inbox, "STREAM_READY") ELSE inbox)

(* --------------------------- SDK script load --------------------------- *)
\* loadSDKScript finishes (lines 780-852).
LoadSDKReturn(outcome) ==
  /\ sdkTask = "loading"
  /\ sdkTask' = "done"
  /\ sdkLoaded' = IF outcome = "ok" THEN SetFlag(sdkLoaded, TRUE) ELSE sdkLoaded
  /\ Commit(CASE outcome = "ok" -> sessionState
              [] outcome = "nouri" -> WithError(sessionState, ErrSdkLoadNoUri)
              [] OTHER -> WithError(sessionState, ErrSdkLoad(<<"copy failed">>)), <<>>)
  /\ UNCHANGED <<mounted, effectsRun, envVars, authVars, pollFlags, sessionCreated,
                 viewFlags, reloads, sdkVars, flows, confirm, events, backendVars,
                 discarded, terminateRejected, navigatedBack>>
  /\ inbox' = KeepInbox(inbox)

\* Retry in the error view (lines 885-912).
Retry ==
  /\ mounted /\ effectsRun
  /\ sessionState.status = "ERROR"
  /\ events < MaxEvents
  /\ events' = events + 1
  /\ Commit(InitialSessionState, <<>>)
  /\ sdkLoaded' = FALSE
  /\ reloads' = reloads + 1
  /\ discarded' = discarded \cup ({sessionState.sessionArn} \ {""})
  /\ UNCHANGED <<mounted, effectsRun, envVars, authVars, pollFlags, sessionCreated,
                 viewFlags, sdkTask, sdkVars, flows, confirm, backendVars,
                 terminateRejected, navigatedBack>>
  /\ inbox' = KeepInbox(inbox)

\* reloadSDK finishes (lines 896-910).
ReloadReturn(ok) ==
  /\ reloads > 0
  /\ reloads' = reloads - 1
  /\ sdkLoaded' = IF ok THEN SetFlag(sdkLoaded, TRUE) ELSE sdkLoaded
  /\ UNCHANGED <<mounted, effectsRun, envVars, authVars, sessionState, pollFlags,
                 sessionCreated, viewFlags, sdkTask, sdkVars, flows, closes, confirm,
                 events, backendVars, discarded, terminateRejected, navigatedBack>>
  /\ inbox' = KeepInbox(inbox)

(* ------------------------- web view messages --------------------------- *)
MessageTypes ==
  {"HTML_LOADED", "DOM_LOADED", "STREAM_READY", "STREAM_ERROR", "SESSION_ENDED",
   "SERVER_DISCONNECT:terminated", "SERVER_DISCONNECT:other", "BACK_BUTTON_PRESSED",
   "STATUS_UPDATE", "UNKNOWN", "NOT_JSON"}

ConnectionStates == {"connected", "disconnected"}

EventVarsUnchanged ==
  UNCHANGED <<mounted, effectsRun, envVars, authVars, sessionState, pollFlags,
              sessionCreated, viewFlags, sdkLoaded, loadVars, sdkVars, flows, closes,
              confirm, backendVars, discarded, terminateRejected, navigatedBack>>

\* The page in the web view posts a message.
PostMessage(m) ==
  /\ WebViewShown /\ effectsRun
  /\ events < MaxEvents
  /\ inbox = <<>>
  /\ events' = events + 1
  /\ inbox' = <<m>>
  /\ EventVarsUnchanged

\* window.handleConnectionState in the injected script (lines 978-991):
\* CONNECTION_STATE, and SESSION_ENDED as well when the state is "disconnected".
SdkConnectionState(state) ==
  /\ WebViewShown /\ effectsRun
  /\ events < MaxEvents
  /\ inbox = <<>>
  /\ events' = events + 1
  /\ inbox' = IF state = "disconnected"
              THEN <<"CONNECTION_STATE:disconnected", "SESSION_ENDED">>
              ELSE <<"CONNECTION_STATE:connected">>
  /\ EventVarsUnchanged

\* A handler that ends the session on every server disconnect.
ClosesSessionOnAnyDisconnect(m) ==
  m \in {"SESSION_ENDED", "SERVER_DISCONNECT:terminated", "SERVER_DISCONNECT:other",
         "CONNECTION_STATE:disconnected"}

\* A handler that ends the session on every message it does not know.
ClosesSessionByDefault(m) ==
  m \in {"SESSION_ENDED", "SERVER_DISCONNECT:terminated", "CONNECTION_STATE:disconnected",
         "UNKNOWN", "NOT_JSON"}

\* The messages on which handleWebViewMessage calls handleCloseSession(true)
\* (lines 710-728).
ClosesSession(m) ==
  m \in {"SESSION_ENDED", "SERVER_DISCONNECT:terminated", "CONNECTION_STATE:disconnected"}

\* handleWebViewMessage (lines 669-745) on the oldest undelivered message.
HandleWebViewMessage ==
  LET m == Head(inbox)
      init == m = "HTML_LOADED"
      start == init /\ hasDocument /\ sessionState.sessionArn = ""
      ns == CASE init /\ ~hasDocument -> WithError(sessionState, ErrNoDocument)
              [] start -> CreatingSessionState
              [] m = "STREAM_ERROR" -> WithError(sessionState, ErrStream)
              [] OTHER -> sessionState
  IN
  /\ WebViewShown /\ inbox # <<>>
  /\ InitializeGameLiftStreams(init /\ hasDocument)
  /\ IF start
     THEN /\ Len(flows) < MaxFlows
          /\ flows' = Append(flows, [NewFlow("start") EXCEPT !.pc = "creating"])
     ELSE flows' = flows
  /\ Commit(ns, IF ClosesSession(m) THEN CloseCalls(sessionState, FALSE) ELSE <<>>)
  /\ streamReady' = IF m = "STREAM_READY" THEN TRUE ELSE streamReady
  /\ connectionState' = CASE m = "CONNECTION_STATE:connected" -> "connected"
                          [] m = "CONNECTION_STATE:disconnected" -> "disconnected"
                          [] OTHER -> connectionState
  /\ confirm' = IF m = "BACK_BUTTON_PRESSED" THEN <<sessionState.sessionArn>> ELSE confirm
  /\ UNCHANGED <<mounted, effectsRun, envVars, authVars, pollFlags, sessionCreated,
                 sdkLoaded, loadVars, events, backendVars, discarded, terminateRejected, navigatedBack>>
  /\ inbox' = KeepInbox(Tail(inbox))

\* onError of the web view (lines 940-948).
WebViewOnError ==
  /\ WebViewShown /\ effectsRun
  /\ events < MaxEvents
  /\ events' = events + 1
  /\ Commit(WithError(sessionState, ErrWebView), <<>>)
  /\ UNCHANGED <<mounted, effectsRun, envVars, authVars, pollFlags, sessionCreated,
                 viewFlags, sdkLoaded, loadVars, sdkVars, flows, confirm, backendVars,
                 discarded, terminateRejected, navigatedBack>>
  /\ inbox' = KeepInbox(inbox)

(* ------------------------------ teardown ------------------------------- *)
\* Hardware back press / Escape while ACTIVE (lines 293-299), or "Press to exit
\* game" (line 1049): handleCloseSession() opens the confirmation (lines 603-641).
UserExit ==
  /\ mounted /\ effectsRun
  /\ sessionState.status = "ACTIVE"
  /\ events < MaxEvents
  /\ confirm = <<>>
  /\ events' = events + 1
  /\ confirm' = <<sessionState.sessionArn>>
  /\ UNCHANGED <<mounted, effectsRun, envVars, authVars, sessionState, pollFlags,
                 sessionCreated, viewFlags, sdkLoaded, loadVars, sdkVars, flows, closes,
                 inbox, backendVars, discarded, terminateRejected, navigatedBack>>

\* A confirmation whose "Cancel" ends the session all the same.
CancelExitTerminates ==
  /\ confirm # <<>>
  /\ confirm' = <<>>
  /\ closes' = Append(closes, [arn |-> confirm[1], nav |-> TRUE])
  /\ UNCHANGED <<mounted, effectsRun, envVars, authVars, sessionState, pollFlags,
                 sessionCreated, viewFlags, sdkLoaded, loadVars, sdkVars, flows,
                 inbox, events, backendVars, discarded, terminateRejected, navigatedBack>>

\* "Cancel" in the confirmation.
CancelExit ==
  /\ confirm # <<>>
  /\ confirm' = <<>>
  /\ UNCHANGED <<mounted, effectsRun, envVars, authVars, sessionState, pollFlags,
                 sessionCreated, viewFlags, sdkLoaded, loadVars, sdkVars, flows, closes,
                 inbox, events, backendVars, discarded, terminateRejected, navigatedBack>>

\* "End Session" in the confirmation (lines 613-624): terminate with the arn of the
\* render that opened it, then router.back().
ConfirmExit ==
  /\ confirm # <<>>
  /\ confirm' = <<>>
  /\ IF confirm[1] # ""
     THEN /\ closes' = Append(closes, [arn |-> confirm[1], nav |-> TRUE])
          /\ UNCHANGED <<mounted, navigatedBack, sessionState, pollFlags, sessionCreated,
                         viewFlags, sdkLoaded, inbox>>
     ELSE /\ Unmount(closes)
          /\ navigatedBack' = navigatedBack + 1
  /\ UNCHANGED <<effectsRun, envVars, authVars, loadVars, sdkVars, flows, events,
                 backendVars, discarded, terminateRejected>>

RemoveAt(q, k) == SubSeq(q, 1, k - 1) \o SubSeq(q, k + 1, Len(q))

TerminateOutcomes == {"ok", "fail", "noauth"}

\* terminateStreamSession (GameService.ts lines 341-370): the result its caller
\* sees. The catch block logs the error and throws it again.
TerminateStreamSession(outcome) == IF outcome = "ok" THEN "resolved" ELSE "rejected"

\* A confirmed exit that navigates back only after a successful terminate.
NavigatesBackOnSuccess(c, outcome) == c.nav /\ TerminateStreamSession(outcome) = "resolved"

\* router.back() in the finally block of the confirmed path (lines 621-624,
\* 637-639); the skip-confirmation path never navigates (lines 650-654).
NavigatesBack(c, outcome) == c.nav

\* terminateStreamSession returns or throws inside handleCloseSession; the error
\* is logged and, on the confirmed path, router.back() follows (lines 614-655).
TerminateReturn(k, outcome) ==
  LET c == closes[k] IN
  /\ terminateLog' = IF outcome # "noauth" THEN Append(terminateLog, c.arn) ELSE terminateLog
  /\ liveSessions' = IF outcome = "ok" THEN liveSessions \ {c.arn} ELSE liveSessions
  /\ terminateRejected' = (terminateRejected \/ TerminateStreamSession(outcome) = "rejected")
  /\ IF NavigatesBack(c, outcome)
     THEN /\ Unmount(RemoveAt(closes, k))
          /\ navigatedBack' = navigatedBack + 1
     ELSE /\ closes' = RemoveAt(closes, k)
          /\ UNCHANGED <<mounted, navigatedBack, sessionState, pollFlags, sessionCreated,
                         viewFlags, sdkLoaded, inbox>>
  /\ UNCHANGED <<effectsRun, envVars, authVars, loadVars, sdkVars, flows, confirm, events,
                 createRequests, discarded>>

\* The user leaves the screen ("Go Back" in the error view, or any navigation).
NavigateAway ==
  /\ mounted /\ effectsRun
  /\ Unmount(closes)
  /\ UNCHANGED <<effectsRun, envVars, authVars, loadVars, sdkVars, flows, confirm, events,
                 backendVars, discarded, terminateRejected, navigatedBack>>

(* --------------------------- specification ----------------------------- *)
Next ==
  \/ Mount
  \/ \E auth \in BOOLEAN : DepsChange(auth)
  \/ \E k \in 1..Len(flows), outcome \in {"ok"} \cup CreateCauses : CreateReturn(k, outcome)
  \/ \E k \in 1..Len(flows), resp \in PollResponses, lat \in Latencies : PollResponse(k, resp, lat)
  \/ \E k \in 1..Len(flows) : PollDelay(k)
  \/ \E k \in 1..Len(flows), ok \in BOOLEAN : ConsumeReturn(k, ok)
  \/ \E outcome \in {"ok", "nouri", "fail"} : LoadSDKReturn(outcome)
  \/ Retry
  \/ \E ok \in BOOLEAN : ReloadReturn(ok)
  \/ \E m \in MessageTypes : PostMessage(m)
  \/ \E state \in ConnectionStates : SdkConnectionState(state)
  \/ HandleWebViewMessage
  \/ WebViewOnError
  \/ UserExit
  \/ CancelExit
  \/ ConfirmExit
  \/ \E k \in 1..Len(closes), outcome \in TerminateOutcomes : TerminateReturn(k, outcome)
  \/ NavigateAway

Spec == Init /\ [][Next]_vars

\* Steps the program takes by itself: effect passes, continuations of awaited
\* calls, timers and the delivery of posted messages. The event loop runs every
\* one of them that stays pending; user input and dependency changes may never come.
SystemStep ==
  \/ Mount
  \/ \E k \in 1..Len(flows), outcome \in {"ok"} \cup CreateCauses : CreateReturn(k, outcome)
  \/ \E k \in 1..Len(flows), resp \in PollResponses, lat \in Latencies : PollResponse(k, resp, lat)
  \/ \E k \in 1..Len(flows) : PollDelay(k)
  \/ \E k \in 1..Len(flows), ok \in BOOLEAN : ConsumeReturn(k, ok)
  \/ \E outcome \in {"ok", "nouri", "fail"} : LoadSDKReturn(outcome)
  \/ \E ok \in BOOLEAN : ReloadReturn(ok)
  \/ HandleWebViewMessage
  \/ \E k \in 1..Len(closes), outcome \in TerminateOutcomes : TerminateReturn(k, outcome)

FairSpec == Spec /\ WF_vars(SystemStep)

(* ------------------- GameService, called directly --------------------- *)
\* The exported functions of GameService.ts as functions of what their
\* collaborators do: the SDK instance in the module variable, the local signal
\* the SDK generates, the outcome of fetchAuthSession ("token": a session with an
\* id token, "notoken": a session without tokens, "throws") and the outcome of
\* the HTTP request. The result is the record kept in calls:
\*   sdk: the instance in the module variable at the call; signal: the local
\*   signal generated; auth: how fetchAuthSession ended ("" if it was not called);
\*   token: the id token obtained, 0 for none, n for the n-th token the auth
\*   provider issued; request: <<>> if no request was sent, else <<t>> with t the
\*   token in its Authorization header (0: "Bearer undefined"); result: what the
\*   caller sees.
AuthOutcomes == {"token", "notoken", "throws"}

BackendOutcomes == {"ok", "fail"}

LocalSignals == {"", "L"}

\* The auth provider issues a new token at every fetchAuthSession that yields one.
NextToken == Cardinality({i \in 1..Len(calls) : calls[i].token # 0}) + 1

\* const token = session.tokens?.idToken?.toString()
IdToken(auth) == IF auth = "token" THEN NextToken ELSE 0

Rejected(op, signal) ==
  [op |-> op, sdk |-> gameLifStreamsInstance, signal |-> signal, auth |-> "", token |-> 0,
   request |-> <<>>, result |-> "rejected"]

\* fetchAuthSession, then the request with 'Authorization': `Bearer ${token}`;
\* every error is logged and thrown again.
AuthorizedRequest(op, signal, auth, backend) ==
  IF auth = "throws"
  THEN [Rejected(op, signal) EXCEPT !.auth = auth]
  ELSE [op |-> op, sdk |-> gameLifStreamsInstance, signal |-> signal, auth |-> auth,
        token |-> IdToken(auth), request |-> <<IdToken(auth)>>,
        result |-> IF backend = "ok" THEN "resolved" ELSE "rejected"]

\* A createStreamSession that sends whatever the SDK generated.
SignalNeverMissing(signal) == FALSE

\* if (!signalRequest) throw new Error('Failed to generate SignalRequest')
SignalMissing(signal) == signal = ""

GetGamesCall(auth, backend) == AuthorizedRequest("getGames", "", auth, backend)

CreateStreamSessionCall(signal, auth, backend) ==
  IF gameLifStreamsInstance = 0 THEN Rejected("createStreamSession", "")
  ELSE IF SignalMissing(signal) THEN Rejected("createStreamSession", signal)
  ELSE AuthorizedRequest("createStreamSession", signal, auth, backend)

GetSessionStatusCall(auth, backend) == AuthorizedRequest("getSessionStatus", "", auth, backend)

UpdateStreamSessionCall(signal, auth, backend) ==
  IF gameLifStreamsInstance = 0 THEN Rejected("updateStreamSession", "")
  ELSE AuthorizedRequest("updateStreamSession", signal, auth, backend)

TerminateStreamSessionCall(auth, backend) ==
  AuthorizedRequest("terminateStreamSession", "", auth, backend)

ProcessSignalResponseCall(ok) ==
  IF gameLifStreamsInstance = 0 \/ ~ok
  THEN Rejected("processSignalResponse", "")
  ELSE [Rejected("processSignalResponse", "") EXCEPT !.result = "resolved"]

ScreenUnchanged ==
  UNCHANGED <<mounted, effectsRun, hasDocument, isAuthenticated, params, sessionState,
              pollFlags, sessionCreated, viewFlags, sdkLoaded, loadVars, flows, closes,
              confirm, inbox, events, backendVars, discarded, terminateRejected,
              navigatedBack, catalog>>

Record(c) ==
  /\ Len(calls) < MaxCalls
  /\ calls' = Append(calls, c)
  /\ UNCHANGED sdkVars
  /\ ScreenUnchanged

CallInitialize ==
  /\ gameLifStreamsInstance < MaxCalls
  /\ InitializeGameLiftStreams(TRUE)
  /\ calls' = calls
  /\ ScreenUnchanged

CallGetGames(auth, backend) == Record(GetGamesCall(auth, backend))

CallCreateStreamSession(signal, auth, backend) ==
  Record(CreateStreamSessionCall(signal, auth, backend))

CallGetSessionStatus(auth, backend) == Record(GetSessionStatusCall(auth, backend))

CallUpdateStreamSession(signal, auth, backend) ==
  Record(UpdateStreamSessionCall(signal, auth, backend))

CallTerminateStreamSession(auth, backend) == Record(TerminateStreamSessionCall(auth, backend))

CallProcessSignalResponse(ok) == Record(ProcessSignalResponseCall(ok))

\* The screen stands still; a caller drives GameService.
ServiceInit == Init /\ hasDocument /\ isAuthenticated /\ params.sessionArn = ""

ServiceNext ==
  \/ CallInitialize
  \/ \E auth \in AuthOutcomes, backend \in BackendOutcomes : CallGetGames(auth, backend)
  \/ \E signal \in LocalSignals, auth \in AuthOutcomes, backend \in BackendOutcomes :
        CallCreateStreamSession(signal, auth, backend)
  \/ \E auth \in AuthOutcomes, backend \in BackendOutcomes : CallGetSessionStatus(auth, backend)
  \/ \E signal \in LocalSignals, auth \in AuthOutcomes, backend \in BackendOutcomes :
        CallUpdateStreamSession(signal, auth, backend)
  \/ \E auth \in AuthOutcomes, backend \in BackendOutcomes :
        CallTerminateStreamSession(auth, backend)
  \/ \E ok \in BOOLEAN : CallProcessSignalResponse(ok)

ServiceSpec == ServiceInit /\ [][ServiceNext]_vars

(* --------------------------- the games catalog ------------------------- *)
\* A game as far as getGames and the games screen look at it: ordering, name and
\* regions (<<>>: the field is missing or empty).
Orderings == 1..2

Names == {"A", "B", "C"}

\* Backend games without regions or of another region; the games of the
\* fallback list are those of the selected region.
RegionLists == {<<>>, <<"eu-central-1">>}

Games == [ordering : Orderings, name : Names, regions : RegionLists]

GameLists == UNION {[1..n -> Games] : n \in 0..MaxGames}

\* The position of a name in the collation order of the locale.
CollationRank(name) ==
  CASE name = "A" -> 1
    [] name = "B" -> 2
    [] name = "C" -> 3
    [] name = "Fantasy Quest" -> 4
    [] name = "Racing Legends" -> 5
    [] OTHER -> 6

\* g1.name.localeCompare(g2.name): negative, zero or positive.
localeCompare(a, b) ==
  IF CollationRank(a) < CollationRank(b) THEN -1
  ELSE IF CollationRank(a) > CollationRank(b) THEN 1 ELSE 0

\* A comparator that looks at the ordering only.
compareOrderingOnly(g1, g2) == g1.ordering - g2.ordering

\* The comparator of getGames (GameService.ts lines 142-148).
compare(g1, g2) ==
  IF g1.ordering = g2.ordering
  THEN localeCompare(g1.name, g2.name)
  ELSE g1.ordering - g2.ordering

\* Array.prototype.sort is stable: g goes behind every element that does not
\* compare greater than it.
RECURSIVE InsertGame(_, _)
InsertGame(sorted, g) ==
  IF sorted = <<>> THEN <<g>>
  ELSE IF compare(sorted[Len(sorted)], g) <= 0 THEN Append(sorted, g)
  ELSE Append(InsertGame(SubSeq(sorted, 1, Len(sorted) - 1), g), sorted[Len(sorted)])

RECURSIVE sort(_)
sort(games) ==
  IF games = <<>> THEN <<>>
  ELSE InsertGame(sort(SubSeq(games, 1, Len(games) - 1)), games[Len(games)])

FALLBACK_GAMES ==
  << [ordering |-> 1, name |-> "Space Explorer", regions |-> <<"us-west-2">>],
     [ordering |-> 2, name |-> "Racing Legends", regions |-> <<"us-west-2">>],
     [ordering |-> 3, name |-> "Fantasy Quest", regions |-> <<"us-west-2">>] >>

selectedRegions == <<"us-west-2">>

\* !game.regions || game.regions.length === 0 ||
\*   selectedRegions.some((region) => game.regions?.includes(region))
InSelectedRegions(game) ==
  \/ game.regions = <<>>
  \/ \E i \in 1..Len(selectedRegions), j \in 1..Len(game.regions) :
       selectedRegions[i] = game.regions[j]

RECURSIVE filter(_)
filter(games) ==
  IF games = <<>> THEN <<>>
  ELSE LET rest == filter(SubSeq(games, 1, Len(games) - 1))
           last == games[Len(games)]
       IN IF InSelectedRegions(last) THEN Append(rest, last) ELSE rest

GetGamesFailures == {"noauth", "network", "backend"}

PlayerUnchanged ==
  UNCHANGED <<mounted, effectsRun, hasDocument, isAuthenticated, params, sessionState,
              pollFlags, sessionCreated, viewFlags, sdkLoaded, loadVars, sdkVars, flows,
              closes, confirm, inbox, events, backendVars, discarded, terminateRejected,
              navigatedBack, calls>>

\* fetchGames up to its await (games.tsx lines 68-76), called by the effect of
\* the authenticated screen.
FetchGames ==
  /\ catalog.phase = "idle"
  /\ catalog' = [catalog EXCEPT !.phase = "fetching", !.loading = TRUE, !.requests = 0,
                                !.backend = <<>>, !.fetched = <<>>, !.alert = FALSE]
  /\ PlayerUnchanged

\* getGames resolves with the sorted list (GameService.ts lines 121-148); the
\* screen filters and shows it (games.tsx lines 76-99, 104).
GetGamesResolves(list) ==
  /\ catalog.phase = "fetching"
  /\ catalog' = [catalog EXCEPT !.phase = "done", !.outcome = "ok", !.backend = list, !.fetched = sort(list),
                                !.requests = 1, !.games = filter(sort(list)),
                                !.error = "", !.loading = FALSE]
  /\ PlayerUnchanged

\* A fetchGames that reports the failure of getGames as the error of the screen.
FetchFailedAsError(c) ==
  [c EXCEPT !.error = "Failed to load games. Please try again.", !.loading = FALSE]

\* The inner catch of fetchGames, then the filter and the setters after it and
\* the finally block (games.tsx lines 80-104).
FetchFailed(c) ==
  [c EXCEPT !.alert = TRUE, !.games = filter(FALLBACK_GAMES), !.error = "",
            !.loading = FALSE]

\* getGames throws: fetchAuthSession failed ("noauth", no request sent), or the
\* request or its response failed; the inner catch of fetchGames substitutes
\* FALLBACK_GAMES (games.tsx lines 80-88).
GetGamesRejects(cause) ==
  /\ catalog.phase = "fetching"
  /\ catalog' = [FetchFailed(catalog) EXCEPT !.phase = "done", !.outcome = cause,
                                             !.requests = IF cause = "noauth" THEN 0 ELSE 1]
  /\ PlayerUnchanged

\* The player screen stands still; the games screen fetches its catalog.
CatalogInit == Init /\ hasDocument /\ isAuthenticated /\ params.sessionArn = ""

CatalogNext ==
  \/ FetchGames
  \/ \E list \in GameLists : GetGamesResolves(list)
  \/ \E cause \in GetGamesFailures : GetGamesRejects(cause)

CatalogSpec == CatalogInit /\ [][CatalogNext]_vars

(* ------------------------------ properties ----------------------------- *)
FlowIds == 1..Len(flows)

Count(q, a) == Cardinality({i \in 1..Len(q) : q[i] = a})

\* The last status response of flow f was one the specification calls active.
AnsweredActive(f) == f.lastStatus = "ACTIVE" \/ f.lastSignal # ""

\* C1: one run of the poll loop issues at most 10 getSessionStatus requests, and
\* the step in which a loop ends without an active response leaves the screen
\* (while mounted) in status ERROR.
C1_PollLoopBounded ==
  [][\A k \in FlowIds :
       /\ flows'[k].reqs <= 10
       /\ (mounted /\ Polling(flows[k]) /\ flows'[k].pc = "done" /\ ~AnsweredActive(flows'[k]))
            => sessionState'.status = "ERROR"]_vars

\* C1 witness: a loop ended after its 10th request without an active response.
C1_Witness ==
  \E k \in FlowIds :
    /\ flows[k].pc = "done" /\ flows[k].reqs = 10 /\ flows[k].lastStatus = "PENDING"
    /\ flows[k].lastSignal = ""
    /\ mounted /\ sessionState.status = "ERROR" /\ sessionState.error = ErrMaxAttempts

C3_SingleCreate ==
  /\ createRequests <= 1
  /\ Cardinality({k \in FlowIds : flows[k].kind = "start"}) <= 1

\* C3 witness: the effects ran again for an authenticated user (the params effect
\* has reset the status to INITIALIZING) while the create call of the attempt is
\* still in flight, and no second startGameSession was started.
C3_Witness ==
  /\ mounted /\ isAuthenticated /\ hasDocument /\ sdkTask = "loading" /\ sessionCreated
  /\ Len(flows) = 1 /\ flows[1].kind = "start" /\ flows[1].pc = "creating"
  /\ sessionState.status = "INITIALIZING"

\* C4 (as claimed): while the screen is mounted, the backend receives at most
\* one terminate request for a session.
C4_TerminateOnce ==
  mounted => \A i, j \in 1..Len(terminateLog) : terminateLog[i] = terminateLog[j] => i = j

\* C5 (as claimed): once the "disconnected" connection state has been handled and
\* no message or terminate call is pending, the status has left ACTIVE and the
\* backend has received exactly one terminate request for the session.
C5_DisconnectEndsSession ==
  (mounted /\ connectionState = "disconnected" /\ inbox = <<>> /\ closes = <<>>)
    => /\ sessionState.status # "ACTIVE"
       /\ Count(terminateLog, sessionState.sessionArn) <= 1

\* C6 (as claimed): status changes from WAITING_FOR_SESSION to ACTIVE only when
\* processSignalResponse has completed successfully.
C6_ActiveOnlyAfterConsume ==
  [][(sessionState.status = "WAITING_FOR_SESSION" /\ sessionState'.status = "ACTIVE")
       => \E k \in FlowIds : flows'[k].consumed = "ok"]_vars

\* C6 (amended): status changes from WAITING_FOR_SESSION to ACTIVE only in the step
\* in which a poll loop receives a response with status ACTIVE or a non-empty
\* signal response, before processSignalResponse has completed; when
\* processSignalResponse then fails, the status becomes ERROR.
C6_ActiveOnActiveResponse ==
  [][/\ (sessionState.status = "WAITING_FOR_SESSION" /\ sessionState'.status = "ACTIVE")
          => \E k \in FlowIds :
               /\ flows[k].pc = "poll_req" /\ flows'[k].pc \in {"consume", "done"}
               /\ AnsweredActive(flows'[k])
               /\ flows'[k].consumed = "none"
     /\ \A k \in FlowIds :
          (mounted /\ flows[k].pc = "consume" /\ flows'[k].consumed = "fail")
            => sessionState'.status = "ERROR"]_vars

\* C6 witness: the status is ACTIVE while processSignalResponse has not returned.
C6_Witness ==
  /\ mounted /\ sessionState.status = "ACTIVE"
  /\ \E k \in FlowIds : flows[k].pc = "consume" /\ flows[k].consumed = "none"

\* C7: the step in which createStreamSession fails leaves the screen (while
\* mounted) in status ERROR with the network message when the cause is a network
\* failure and a message starting "API Error: " otherwise.
C7_CreateFailureIsError ==
  [][\A k \in FlowIds :
       (mounted /\ flows[k].pc = "creating" /\ flows'[k].outcome \in CreateCauses)
         => /\ sessionState'.status = "ERROR"
            /\ IF flows'[k].outcome = "network"
               THEN sessionState'.error = ErrNetwork
               ELSE /\ Head(sessionState'.error) = "API Error: "
                    /\ Len(sessionState'.error) = 1 + Len(OrUnknown(CreateFailureMessage(flows'[k].outcome), ""))]_vars

\* C7 witness: a create call failed for a network cause and the screen shows the
\* network message.
C7_Witness ==
  /\ mounted /\ sessionState.status = "ERROR" /\ sessionState.error = ErrNetwork
  /\ \E k \in FlowIds : flows[k].pc = "done" /\ flows[k].outcome = "network"

\* C8 (as claimed): while the screen is mounted, only Retry (or a new pass of the
\* effects) moves the status out of ERROR.
C8_ErrorUntilRetry ==
  [][(mounted /\ mounted' /\ sessionState.status = "ERROR" /\ sessionState'.status # "ERROR")
       => (Retry \/ \E auth \in BOOLEAN : DepsChange(auth))]_vars

\* C9 (as claimed): the session state never carries an arn that Retry discarded
\* (for a screen opened without a session in its params).
C9_DiscardedArnGone ==
  (mounted /\ params.sessionArn = "") => sessionState.sessionArn \notin discarded

\* The step in which flow k receives the answer of a getSessionStatus request.
Answered(k) == flows[k].pc = "poll_req" /\ flows'[k].pc # "poll_req"

\* ... and the request failed (a failed request leaves no status and no signal).
AnsweredFailure(k) == Answered(k) /\ flows'[k].lastStatus = ""

C10_StartPending ==
  /\ mounted /\ isAuthenticated /\ hasDocument /\ params.sessionArn = ""
  /\ sessionState.status = "INITIALIZING"

\* C10 (as claimed): whenever the status is INITIALIZING for an authenticated user
\* and no session came with the params, the status eventually moves on to
\* CREATING_SESSION (or beyond), unless the screen is left or the user signs out.
C10_InitializingStartsSession ==
  C10_StartPending ~> (sessionState.status # "INITIALIZING" \/ ~mounted \/ ~isAuthenticated)

\* C11: the step in which a getSessionStatus call fails ends the poll loop and
\* leaves the screen (while mounted) in status ERROR; a loop that has ended issues
\* no further request.
C11_FailedCheckEndsLoop ==
  [][\A k \in FlowIds :
       /\ AnsweredFailure(k)
            => /\ flows'[k].pc = "done"
               /\ flows'[k].reqs = flows[k].reqs
               /\ mounted => sessionState'.status = "ERROR"
       /\ flows[k].pc = "done" => (flows'[k].pc = "done" /\ flows'[k].reqs = flows[k].reqs)]_vars

\* C11 witness: a loop ended by a failed status check before its last attempt, the
\* screen shows the status-check error.
C11_Witness ==
  /\ mounted /\ sessionState.status = "ERROR"
  /\ sessionState.error = ErrStatusCheck(MsgStatusFailed)
  /\ \E k \in FlowIds : /\ flows[k].pc = "done" /\ flows[k].looped /\ flows[k].lastStatus = ""
                         /\ flows[k].reqs \in 2..9

\* C12 (as claimed): when the loop ends because a getSessionStatus call failed, on
\* any attempt, the final error text is the status-check one.
C12_FailureReasonKept ==
  [][\A k \in FlowIds :
       (mounted /\ AnsweredFailure(k))
         => Head(sessionState'.error) = "Failed to check session status: "]_vars

\* C13 (as claimed): the step that unmounts the screen while the session state
\* holds an arn starts a terminate call for that arn, unless the backend has
\* already received a terminate request for it.
C13_TeardownTerminates ==
  [][(mounted /\ ~mounted' /\ sessionState.sessionArn # "")
       => \/ \E i \in 1..Len(closes') : closes'[i].arn = sessionState.sessionArn
          \/ Count(terminateLog', sessionState.sessionArn) > 0]_vars

\* C14 (as claimed): once the screen is unmounted, a poll loop that was in flight
\* issues no further getSessionStatus request.
C14_NoRequestAfterUnmount ==
  [][\A k \in FlowIds :
       (~mounted /\ Polling(flows[k])) => flows'[k].reqs = flows[k].reqs]_vars

\* The terminate calls in flight that were started by a confirmed exit.
ConfirmedCalls(q) == {i \in 1..Len(q) : q[i].nav}

\* C15: a step in which a terminate call returns, whatever its outcome, never moves
\* the status to ERROR, and when the call was started by a confirmed exit the
\* step navigates back and unmounts the screen.
C15_TerminateFailureHarmless ==
  [][/\ (Len(closes') < Len(closes) \/ Cardinality(ConfirmedCalls(closes')) < Cardinality(ConfirmedCalls(closes)))
          => (sessionState'.status = "ERROR" => sessionState.status = "ERROR")
     /\ Cardinality(ConfirmedCalls(closes')) < Cardinality(ConfirmedCalls(closes))
          => (navigatedBack' = navigatedBack + 1 /\ ~mounted')]_vars

\* C15 witness: after a single user exit, the confirmed terminate call reached the
\* backend and failed (the session is still live), and the screen navigated back.
C15_Witness ==
  /\ ~mounted /\ navigatedBack = 1 /\ events = 1 /\ terminateRejected
  /\ \E a \in liveSessions : terminateLog = <<a>>

\* C16 (as claimed): terminateStreamSession never reports a failure to its caller.
C16_TerminateNeverThrows == ~terminateRejected

\* C17 (as claimed): once the teardown trigger "disconnected" connection state has
\* been handled, the screen is eventually left.
C17_TeardownNavigatesAway ==
  (mounted /\ connectionState = "disconnected") ~> ~mounted

C19_ErrorTextOnlyInError ==
  (mounted /\ sessionState.error # <<>>) => sessionState.status = "ERROR"

\* C20: at any time at most one session created by this screen is live on the
\* backend.
C20_SingleLiveSession == Cardinality(liveSessions) <= 1

\* C20 witness: Retry has discarded a created session that is still live on the
\* backend, and the screen is back in INITIALIZING.
C20_Witness ==
  /\ mounted /\ sessionState.status = "INITIALIZING"
  /\ \E a \in liveSessions : a \in discarded

\* C21: within one session attempt started by startGameSession no getSessionStatus
\* request is issued before createStreamSession has returned successfully, and
\* every getSessionStatus request of the attempt uses the arn that
\* createStreamSession returned.
C21_StatusAfterCreate ==
  [][\A k \in FlowIds : flows[k].kind = "start" =>
       /\ flows[k].pc = "creating" => flows[k].reqs = 0
       /\ flows'[k].reqs > flows[k].reqs =>
            /\ flows'[k].outcome = "ok"
            /\ flows[k].pc = "creating" =>
                 /\ createRequests' = createRequests + 1
                 /\ flows'[k].arn = ArnOf(createRequests')
            /\ flows[k].pc # "creating" => flows'[k].arn = flows[k].arn]_vars

\* A start attempt that has sent its second status request for the created session.
C21_Witness ==
  \E k \in FlowIds :
    /\ flows[k].kind = "start"
    /\ flows[k].outcome = "ok"
    /\ flows[k].reqs >= 2
    /\ flows[k].arn = ArnOf(createRequests)

\* C22: processSignalResponse is invoked only after a getSessionStatus response
\* that carries a non-empty signalResponse, and with exactly the payload of that
\* response.
C22_ConsumeReceivedSignal ==
  \A k \in FlowIds :
    (flows[k].pc = "consume" \/ flows[k].consumed # "none") =>
      /\ flows[k].lastSignal # ""
      /\ flows[k].payload = flows[k].lastSignal

\* processSignalResponse has been called with the signal of the response and resolved.
C22_Witness ==
  \E k \in FlowIds :
    /\ flows[k].consumed = "ok"
    /\ flows[k].payload = "R"
    /\ flows[k].lastSignal = "R"

\* C23: streamReady is true only after processSignalResponse has been called with
\* the received remote signal and has succeeded; readiness is never reported for
\* a session whose remote signal was not consumed.
C23_ReadyOnlyAfterConsume ==
  (mounted /\ streamReady) => \E k \in FlowIds : flows[k].consumed = "ok"

\* C24: every successful processSignalResponse is followed by attachInput()
\* before the session is reported ready; when processSignalResponse fails, input
\* is not attached.
C24_InputAttachedBeforeReady ==
  \A k \in FlowIds :
    /\ (flows[k].consumed = "ok" /\ mounted /\ streamReady) => flows[k].inputAttached
    /\ flows[k].consumed = "fail" => ~flows[k].inputAttached

\* C25: when the SDK has not been initialized, or the SDK yields an empty local
\* signal, createStreamSession fails without sending any request; likewise
\* updateStreamSession and processSignalResponse fail when no SDK instance exists.
C25_NoRequestWithoutSdkOrSignal ==
  \A i \in 1..Len(calls) :
    LET c == calls[i] IN
    /\ (c.op = "createStreamSession" /\ (c.sdk = 0 \/ c.signal = "")) =>
         (c.result = "rejected" /\ c.request = <<>>)
    /\ (c.op \in {"updateStreamSession", "processSignalResponse"} /\ c.sdk = 0) =>
         (c.result = "rejected" /\ c.request = <<>>)

\* updateStreamSession was called without an SDK instance, and createStreamSession
\* on an instance that generated an empty signal.
C25_Witness ==
  /\ \E i \in 1..Len(calls) : calls[i].op = "updateStreamSession" /\ calls[i].sdk = 0
  /\ \E i \in 1..Len(calls) :
       /\ calls[i].op = "createStreamSession"
       /\ calls[i].sdk # 0
       /\ calls[i].signal = ""
       /\ calls[i].result = "rejected"

\* A create, status or consume call of flow k fails in this step.
EstablishmentFailure(k) ==
  \/ flows[k].pc = "creating" /\ flows'[k].outcome \in CreateCauses
  \/ AnsweredFailure(k)
  \/ flows[k].consumed = "none" /\ flows'[k].consumed = "fail"

\* handleWebViewMessage handles message m in this step without starting a flow.
Handled(m) ==
  /\ mounted /\ mounted'
  /\ inbox # <<>> /\ Head(inbox) = m
  /\ inbox' # inbox
  /\ flows' = flows
  /\ UNCHANGED <<events, sdkTask, reloads>>

\* C26: no failure of createStreamSession, getSessionStatus, processSignalResponse,
\* SDK initialization or of handling a web-view message escapes the handlers of the
\* screen: the failing flow ends, a message that cannot be parsed is dropped with
\* the state untouched, and each session-establishment failure becomes status
\* ERROR with a non-empty error text.
C26_FailuresBecomeError ==
  [][/\ \A k \in FlowIds :
          EstablishmentFailure(k) =>
            /\ flows'[k].pc = "done"
            /\ mounted => (sessionState'.status = "ERROR" /\ sessionState'.error # <<>>)
     /\ (mounted /\ ~effectsRun /\ effectsRun' /\ ~hasDocument) =>
          (sessionState'.status = "ERROR" /\ sessionState'.error = ErrNoDocument)
     /\ (Handled("HTML_LOADED") /\ ~hasDocument) =>
          (sessionState'.status = "ERROR" /\ sessionState'.error = ErrNoDocument)
     /\ Handled("NOT_JSON") =>
          UNCHANGED <<sessionState, streamReady, connectionState, closes, confirm>>]_vars

\* A created session whose remote signal the SDK rejected: the attempt has ended
\* and the mounted screen shows the error.
C26_Witness ==
  /\ mounted
  /\ sessionState.status = "ERROR"
  /\ sessionState.error = ErrSignal(MsgSignalRejected)
  /\ \E k \in FlowIds :
       /\ flows[k].kind = "start"
       /\ flows[k].outcome = "ok"
       /\ flows[k].consumed = "fail"
       /\ flows[k].pc = "done"

\* C27: when the SDK is set up again while a session already exists (the web view
\* reports HTML_LOADED and sessionArn is non-empty), the screen sends the new local
\* signal through updateStreamSession and never through createStreamSession.
C27_RegeneratedSignalUpdatesSession ==
  [][(/\ mounted /\ inbox # <<>> /\ Head(inbox) = "HTML_LOADED"
      /\ sessionState.sessionArn # ""
      /\ events' = events
      /\ gameLifStreamsInstance' # gameLifStreamsInstance) =>
        /\ createRequests' = createRequests
        /\ \A k \in 1..Len(flows') : flows'[k].pc # "creating" \/ k \in FlowIds
        /\ \E k \in 1..Len(flows') : flows'[k].kind = "update"]_vars

\* C28: the SDK instance that consumed the remote signal of a session is, until
\* teardown, neither closed nor replaced by another instance.
C28_OneInstancePerSession ==
  \A k \in FlowIds :
    (/\ flows[k].consumed = "ok"
     /\ mounted
     /\ sessionState.status = "ACTIVE"
     /\ sessionState.sessionArn = flows[k].arn) =>
      /\ gameLifStreamsInstance = flows[k].sdk
      /\ flows[k].sdk \notin closedInstances

\* C29: after a teardown of a session has completed, the SDK instance that served
\* the session has been closed.
C29_InstanceClosedAfterTeardown ==
  (/\ ~mounted
   /\ closes = <<>>
   /\ terminateLog # <<>>
   /\ gameLifStreamsInstance # 0) =>
    gameLifStreamsInstance \in closedInstances

\* C30: every backend request of getGames, createStreamSession, getSessionStatus,
\* updateStreamSession and terminateStreamSession carries a credential obtained
\* from the auth provider inside that same call, and no credential obtained by
\* one call is used by another.
C30_RequestCarriesOwnCredential ==
  \A i \in 1..Len(calls) :
    calls[i].request # <<>> =>
      /\ calls[i].auth = "token"
      /\ calls[i].token # 0
      /\ calls[i].request = <<calls[i].token>>
      /\ \A j \in 1..Len(calls) : j # i => calls[j].token # calls[i].token

\* C31: for every list of games returned by the backend, getGames returns a
\* permutation of that list ordered by ascending ordering, entries of equal
\* ordering being ordered by the string comparison of their names.
C31_SortedPermutation ==
  (catalog.phase = "done" /\ catalog.outcome = "ok") =>
    LET f == catalog.fetched
        b == catalog.backend
    IN /\ Len(f) = Len(b)
       /\ \A g \in Games : Count(f, g) = Count(b, g)
       /\ \A i, j \in 1..Len(f) :
            i < j => \/ f[i].ordering < f[j].ordering
                     \/ /\ f[i].ordering = f[j].ordering
                        /\ CollationRank(f[i].name) <= CollationRank(f[j].name)

\* The backend returned [{1,B},{1,A},{2,C}] and getGames returned the order A, B, C.
C31_Witness ==
  /\ catalog.phase = "done"
  /\ Len(catalog.backend) = 3
  /\ catalog.backend[1].ordering = 1 /\ catalog.backend[1].name = "B"
  /\ catalog.backend[2].ordering = 1 /\ catalog.backend[2].name = "A"
  /\ catalog.backend[3].ordering = 2 /\ catalog.backend[3].name = "C"
  /\ catalog.fetched[1].name = "A"
  /\ catalog.fetched[2].name = "B"
  /\ catalog.fetched[3].name = "C"

\* C32: when getGames fails it has made a single attempt, and the games screen
\* substitutes the fallback list: fetchGames ends with loading false, no error,
\* and the fallback games of the selected regions displayed.
C32_FallbackOnFailure ==
  (catalog.phase = "done" /\ catalog.outcome \in GetGamesFailures) =>
    /\ catalog.requests <= 1
    /\ ~catalog.loading
    /\ catalog.error = ""
    /\ catalog.games = FALLBACK_GAMES
    /\ \A i \in 1..Len(catalog.games) :
         \E j \in 1..Len(catalog.games[i].regions) :
           catalog.games[i].regions[j] = selectedRegions[1]

\* The request of getGames failed and the screen shows the fallback list.
C32_Witness ==
  /\ catalog.phase = "done"
  /\ catalog.outcome = "network"
  /\ catalog.requests = 1
  /\ catalog.alert
  /\ Len(catalog.games) = 3
  /\ ~catalog.loading

\* C33: from WAITING_FOR_SESSION with a poll loop running the screen reaches ACTIVE
\* or ERROR, and it never stays in WAITING_FOR_SESSION after the loop has ended:
\* a mounted screen in WAITING_FOR_SESSION has a poll loop in flight.
C33_WaitingHasLoop ==
  (mounted /\ sessionState.status = "WAITING_FOR_SESSION") =>
    \E k \in FlowIds : Polling(flows[k])

\* C34: when, at the start of an iteration, the time elapsed since the poll loop
\* began is at least the timeout, the loop sends no further getSessionStatus
\* request and the screen ends in ERROR with the timeout reason, even when
\* attempts remain.
C34_TimeoutEndsLoop ==
  [][\A k \in FlowIds :
       (/\ mounted
        /\ flows[k].pc = "poll_delay"
        /\ flows'[k].pc # "poll_delay"
        /\ flows[k].i + 1 < maxAttempts
        /\ flows[k].elapsed + pollDelayMs >= timeoutMs) =>
         /\ flows'[k].pc = "done"
         /\ flows'[k].reqs = flows[k].reqs
         /\ sessionState'.status = "ERROR"
         /\ sessionState'.error = ErrTimeout]_vars

\* C35: a poll response is treated as active exactly when its status is "ACTIVE"
\* or its signalResponse is non-empty; after every other response the loop goes on
\* to the next attempt, or ends by exhaustion, and the status is not changed by
\* the response while attempts remain.
C35_ActiveExactlyOnStatusOrSignal ==
  [][\A k \in FlowIds :
       (Answered(k) /\ flows'[k].lastStatus # "") =>
         /\ AnsweredActive(flows'[k]) =>
              (flows'[k].pc \in {"consume", "done"} /\ flows'[k].reqs = flows[k].reqs
               /\ (mounted => sessionState'.status \in {"ACTIVE", "ERROR"}))
         /\ (~AnsweredActive(flows'[k]) /\ flows[k].i + 1 < maxAttempts) =>
              (flows'[k].pc = "poll_delay" /\ (mounted => sessionState'.status = sessionState.status))
         /\ (~AnsweredActive(flows'[k]) /\ flows[k].i + 1 = maxAttempts) =>
              (flows'[k].pc = "done" /\ (mounted => sessionState'.status = "ERROR"))]_vars

\* A response with status PENDING and a signal was taken for active: the signal
\* was consumed and the screen is ACTIVE.
C35_Witness ==
  /\ mounted
  /\ sessionState.status = "ACTIVE"
  /\ \E k \in FlowIds :
       /\ flows[k].lastStatus = "PENDING"
       /\ flows[k].lastSignal = "R"
       /\ flows[k].consumed = "ok"

\* C36: a SERVER_DISCONNECT message starts the termination routine only when its
\* reason is 'terminated'; for any other reason no terminate call is made and
\* the session state is unchanged.
C36_ServerDisconnectTerminated ==
  [][/\ Handled("SERVER_DISCONNECT:other") =>
          UNCHANGED <<sessionState, closes, terminateLog, navigatedBack>>
     /\ (Handled("SERVER_DISCONNECT:terminated") /\ sessionState.sessionArn # "") =>
          /\ closes' = Append(closes, [arn |-> sessionState.sessionArn, nav |-> FALSE])
          /\ sessionState' = sessionState]_vars

\* A server disconnect with a reason other than 'terminated' is about to be
\* handled for a live session.
C36_Witness ==
  /\ WebViewShown
  /\ inbox # <<>> /\ Head(inbox) = "SERVER_DISCONNECT:other"
  /\ sessionState.sessionArn # ""
  /\ sessionState.sessionArn \in liveSessions
  /\ closes = <<>>

\* C37: when the user cancels the exit confirmation, no terminate call is made,
\* nothing navigates and the session state is unchanged; a terminate call of a
\* user-initiated exit is made only in the step in which the user confirms.
C37_CancelKeepsSession ==
  [][/\ (confirm # <<>> /\ confirm' = <<>> /\ CancelExit) =>
          UNCHANGED <<sessionState, closes, terminateLog, navigatedBack, mounted, liveSessions>>
     /\ Cardinality(ConfirmedCalls(closes')) > Cardinality(ConfirmedCalls(closes)) =>
          (confirm # <<>> /\ confirm' = <<>> /\ ~CancelExit)]_vars

\* The confirmation is open on an ACTIVE session and no terminate call was made.
C37_Witness ==
  /\ mounted
  /\ sessionState.status = "ACTIVE"
  /\ confirm = <<sessionState.sessionArn>>
  /\ sessionState.sessionArn # ""
  /\ closes = <<>>
  /\ terminateLog = <<>>

\* C38: when no credential is available (fetchAuthSession fails or yields no
\* token), each operation of the session API client fails and sends no request.
C38_NoCredentialNoRequest ==
  \A i \in 1..Len(calls) :
    (calls[i].auth \in {"throws", "notoken"}) =>
      (calls[i].result = "rejected" /\ calls[i].request = <<>>)

\* C39: whenever the status changes away from ACTIVE while the arn is non-empty,
\* or the arn changes while the status is ACTIVE, the cleanup of the back-handler
\* effect starts a terminate call for the arn that was active; a change away from
\* any other status starts none.
C39_CleanupTerminatesActive ==
  [][(mounted /\ mounted'
      /\ (sessionState'.status # sessionState.status
          \/ sessionState'.sessionArn # sessionState.sessionArn)) =>
        IF sessionState.status = "ACTIVE" /\ sessionState.sessionArn # ""
        THEN closes' = Append(closes, [arn |-> sessionState.sessionArn, nav |-> FALSE])
        ELSE closes' = closes]_vars

\* A stream error moved an ACTIVE session to ERROR and the cleanup started the
\* only terminate call.
C39_Witness ==
  /\ mounted
  /\ sessionState.status = "ERROR"
  /\ sessionState.error = ErrStream
  /\ closes = <<[arn |-> sessionState.sessionArn, nav |-> FALSE]>>
  /\ terminateLog = <<>>
  /\ events = 1

\* C40: web-view messages of type DOM_LOADED and STATUS_UPDATE, of an unknown type,
\* and payloads that are not valid JSON leave the session state unchanged and
\* cause no backend request.
C40_IgnoredMessages ==
  [][\A m \in {"DOM_LOADED", "STATUS_UPDATE", "UNKNOWN", "NOT_JSON"} :
       Handled(m) => UNCHANGED <<sessionState, closes, createRequests, liveSessions,
                                 terminateLog, gameLifStreamsInstance>>]_vars

\* A message of an unknown type is about to be handled for a live session.
C40_Witness ==
  /\ WebViewShown
  /\ inbox # <<>> /\ Head(inbox) = "UNKNOWN"
  /\ sessionState.sessionArn \in liveSessions

====
